---- MODULE Spec2Model ----
(***************************************************************************)
(* A model of pompompom.py: the Pomodoro timer (PomodoroModel) and the     *)
(* handlers of its view (PomodoroView) that change the model.              *)
(*                                                                         *)
(* Indices are 0-based as in the source; TLA+ sequences are 1-based, so    *)
(* element i of a Python list l is l[i + 1] here.  A task [name, count]    *)
(* is the record [name |-> ..., count |-> ...].  Text that the program     *)
(* parses as a number (a settings field, a count cell, a CSV count field)  *)
(* is a sequence of one-character strings, so that int() and isdigit()     *)
(* are computed from the characters; task names are plain strings.         *)
(***************************************************************************)
EXTENDS Integers, Sequences, FiniteSets, TLC

VARIABLES
    work_duration,          \* PomodoroModel.work_duration (seconds)
    short_break_duration,   \* PomodoroModel.short_break_duration
    long_break_duration,    \* PomodoroModel.long_break_duration
    current_state_index,    \* PomodoroModel.current_state_index
    is_running,             \* PomodoroModel.is_running
    remaining_time,         \* PomodoroModel.remaining_time
    current_task,           \* PomodoroModel.current_task (the label)
    task_list,              \* PomodoroModel.task_list
    current_task_index,     \* PomodoroModel.current_task_index (-1: unset)
    timer_scheduled,        \* the root.after(1000, update_timer) callback is pending
    spreadsheet,            \* PomodoroView.spreadsheet is not None
    last_op,                \* history: the handler that made the last step,
                            \*   and how it ended or what it was given
    run,                    \* history: the timer callbacks since the last command
    fresh                   \* history: select_task has set the pointer and no
                            \*   focus interval has been entered since

vars == <<work_duration, short_break_duration, long_break_duration,
          current_state_index, is_running, remaining_time, current_task,
          task_list, current_task_index, timer_scheduled, spreadsheet,
          last_op, run, fresh>>

-----------------------------------------------------------------------------
(* Bounds of the model.                                                    *)

\* the longest task list the editor or a file supplies
MaxLen == 3
\* the largest count typed into the editor or read from a file
MaxCount == 1
\* the deepest a count is followed below zero
MaxDebt == 2
\* the longest run of timer callbacks that is counted
MaxRun == 4

\* task names, by row of the editor
RowNames == <<"A", "B", "C", "D", "E">>

-----------------------------------------------------------------------------
(* Text and its conversions.                                               *)

DigitChars == <<"0", "1", "2", "3", "4", "5", "6", "7", "8", "9">>

IsDigitChar(c) == \E d \in 1..Len(DigitChars) : DigitChars[d] = c

DigitVal(c) == (CHOOSE d \in 1..Len(DigitChars) : DigitChars[d] = c) - 1

\* str.isdigit(): non-empty and every character a digit
str_isdigit(s) == Len(s) > 0 /\ \A i \in 1..Len(s) : IsDigitChar(s[i])

RECURSIVE DigitsValue(_)
DigitsValue(s) ==
    IF s = <<>> THEN 0
    ELSE DigitsValue(SubSeq(s, 1, Len(s) - 1)) * 10 + DigitVal(s[Len(s)])

\* the digits of int(s) without its sign
int_body(s) == IF s # <<>> /\ s[1] \in {"+", "-"} THEN Tail(s) ELSE s

\* int(s) raises ValueError unless s is an optional sign and digits
int_raises(s) == ~ str_isdigit(int_body(s))

int_value(s) ==
    IF s # <<>> /\ s[1] = "-" THEN 0 - DigitsValue(int_body(s))
    ELSE DigitsValue(int_body(s))

RECURSIVE NatText(_)
NatText(n) ==
    IF n < 10 THEN <<DigitChars[n + 1]>>
    ELSE NatText(n \div 10) \o <<DigitChars[(n % 10) + 1]>>

\* str(n) of an integer
str_int(n) == IF n < 0 THEN <<"-">> \o NatText(0 - n) ELSE NatText(n)

-----------------------------------------------------------------------------
(* PomodoroModel.                                                          *)

pomodoro_cycle ==
    <<"Work", "Short Break", "Work", "Short Break",
      "Work", "Short Break", "Work", "Long Break">>

\* the fields of the model object, as one record
M == [work_duration        |-> work_duration,
      short_break_duration |-> short_break_duration,
      long_break_duration  |-> long_break_duration,
      current_state_index  |-> current_state_index,
      is_running           |-> is_running,
      remaining_time       |-> remaining_time,
      current_task         |-> current_task,
      task_list            |-> task_list,
      current_task_index   |-> current_task_index]

\* the model object becomes m
SetModel(m) ==
    /\ work_duration' = m.work_duration
    /\ short_break_duration' = m.short_break_duration
    /\ long_break_duration' = m.long_break_duration
    /\ current_state_index' = m.current_state_index
    /\ is_running' = m.is_running
    /\ remaining_time' = m.remaining_time
    /\ current_task' = m.current_task
    /\ task_list' = m.task_list
    /\ current_task_index' = m.current_task_index

\* the model object is m
ModelIs(m) ==
    /\ work_duration = m.work_duration
    /\ short_break_duration = m.short_break_duration
    /\ long_break_duration = m.long_break_duration
    /\ current_state_index = m.current_state_index
    /\ is_running = m.is_running
    /\ remaining_time = m.remaining_time
    /\ current_task = m.current_task
    /\ task_list = m.task_list
    /\ current_task_index = m.current_task_index

PomodoroModel_init ==
    [work_duration        |-> 25 * 60,
     short_break_duration |-> 5 * 60,
     long_break_duration  |-> 15 * 60,
     current_state_index  |-> 0,
     is_running           |-> FALSE,
     remaining_time       |-> 25 * 60,
     current_task         |-> "No Task Selected",
     task_list            |-> <<>>,
     current_task_index   |-> -1]

\* rotate_tasks taking two off the count of the pointed task
rotate_tasks_twice(m) ==
    LET tl == m.task_list
        n  == Len(tl)
        p0 == m.current_task_index
    IN  IF p0 # -1 /\ p0 >= n
        THEN [model |-> m, raised |-> TRUE]
        ELSE
          LET p1  == IF p0 = -1 THEN p0 + 1 ELSE p0
              tl1 == IF p0 # -1 /\ tl[p0 + 1].count # 0
                     THEN [tl EXCEPT ![p0 + 1].count = @ - 2]
                     ELSE tl
              p2  == IF tl1[p1 + 1].count = 0 THEN (p1 + 1) % n ELSE p1
              label == IF tl1[p2 + 1].count # 0
                       THEN tl1[p2 + 1].name
                       ELSE "All Tasks Completed"
          IN  [model |-> [m EXCEPT !.task_list = tl1,
                                   !.current_task_index = p2,
                                   !.current_task = label],
               raised |-> FALSE]

\* lines 56-69: the task rotation at a focus entry with a non-empty list;
\* m already holds the new position and the focus duration.  The result is
\* the model and whether IndexError was raised (line 60, an index past the
\* end of the list), in which case the fields set so far are kept.
rotate_tasks(m) ==
    LET tl == m.task_list
        n  == Len(tl)
        p0 == m.current_task_index
    IN  IF p0 # -1 /\ p0 >= n
        THEN [model |-> m, raised |-> TRUE]
        ELSE
          LET p1  == IF p0 = -1 THEN p0 + 1 ELSE p0
              tl1 == IF p0 # -1 /\ tl[p0 + 1].count # 0
                     THEN [tl EXCEPT ![p0 + 1].count = @ - 1]
                     ELSE tl
              p2  == IF tl1[p1 + 1].count = 0 THEN (p1 + 1) % n ELSE p1
              label == IF tl1[p2 + 1].count # 0
                       THEN tl1[p2 + 1].name
                       ELSE "All Tasks Completed"
          IN  [model |-> [m EXCEPT !.task_list = tl1,
                                   !.current_task_index = p2,
                                   !.current_task = label],
               raised |-> FALSE]

\* next_index with the modulus one short
next_index_short(i) == (i + 1) % (Len(pomodoro_cycle) - 1)

\* line 52: the position after position i
next_index(i) == (i + 1) % Len(pomodoro_cycle)

\* state_duration with the two breaks' durations exchanged
state_duration_swapped(m, state) ==
    IF state = "Work" THEN m.work_duration
    ELSE IF state = "Short Break" THEN m.long_break_duration
    ELSE m.short_break_duration

\* lines 55, 73, 76: the duration that an interval of kind state starts with
state_duration(m, state) ==
    IF state = "Work" THEN m.work_duration
    ELSE IF state = "Short Break" THEN m.short_break_duration
    ELSE m.long_break_duration

\* lines 48-78
get_next_state(m) ==
    LET i1    == next_index(m.current_state_index)
        state == pomodoro_cycle[i1 + 1]
        m1    == [m EXCEPT !.current_state_index = i1,
                           !.remaining_time = state_duration(m, state)]
    IN  IF state = "Work"
        THEN IF m1.task_list # <<>>
             THEN rotate_tasks(m1)
             ELSE [model |-> [m1 EXCEPT !.current_task = "No Task Selected"],
                   raised |-> FALSE]
        ELSE IF state = "Short Break"
        THEN [model |-> [m1 EXCEPT !.current_task = "Short Break"],
              raised |-> FALSE]
        ELSE [model |-> [m1 EXCEPT !.current_task = "Long Break"],
              raised |-> FALSE]

\* lines 80-85
start(m) == IF ~ m.is_running THEN [m EXCEPT !.is_running = TRUE] ELSE m

\* lines 88-92
toggle_pause(m) == [m EXCEPT !.is_running = ~ m.is_running]

\* lines 94-105
reset_pomodoro(m) ==
    [m EXCEPT !.current_state_index = 0,
              !.remaining_time = m.work_duration,
              !.is_running = FALSE,
              !.current_task =
                  IF /\ m.task_list # <<>>
                     /\ 0 <= m.current_task_index
                     /\ m.current_task_index < Len(m.task_list)
                  THEN m.task_list[m.current_task_index + 1].name
                  ELSE "No Task Selected"]

\* select_task without the check of the index
select_task_unchecked(m, task_index) ==
    reset_pomodoro([m EXCEPT !.current_task_index = task_index])

\* lines 107-113
select_task(m, task_index) ==
    IF 0 <= task_index /\ task_index < Len(m.task_list)
    THEN reset_pomodoro([m EXCEPT !.current_task_index = task_index])
    ELSE m

-----------------------------------------------------------------------------
(* PomodoroView: the handlers that change the model.                       *)

\* lines 465-473, apply_settings: the three assignments in order, each
\* after int() of its field; ValueError is caught after whatever was assigned
apply_settings(m, work_text, short_text, long_text) ==
    IF int_raises(work_text) THEN [model |-> m, raised |-> TRUE]
    ELSE
      LET m1 == [m EXCEPT !.work_duration = int_value(work_text) * 60]
      IN  IF int_raises(short_text) THEN [model |-> m1, raised |-> TRUE]
          ELSE
            LET m2 == [m1 EXCEPT !.short_break_duration = int_value(short_text) * 60]
            IN  IF int_raises(long_text) THEN [model |-> m2, raised |-> TRUE]
                ELSE
                  LET m3 == [m2 EXCEPT !.long_break_duration = int_value(long_text) * 60]
                  IN  [model |-> reset_pomodoro(m3), raised |-> FALSE]

\* lines 544-554: config.json at startup, when it exists
load_config_at_startup(m, data) ==
    IF ~ data.exists THEN m
    ELSE IF int_raises(data.work) THEN m
    ELSE
      LET m1 == [m EXCEPT !.work_duration = int_value(data.work) * 60]
      IN  IF int_raises(data.short) THEN m1
          ELSE
            LET m2 == [m1 EXCEPT !.short_break_duration = int_value(data.short) * 60]
            IN  IF int_raises(data.long) THEN m2
                ELSE reset_pomodoro(
                       [m2 EXCEPT !.long_break_duration = int_value(data.long) * 60])

\* lines 393-399: a row of the editor is kept when neither cell is empty
row_is_valid(row) == row.name # "" /\ Len(row.count) # 0

\* lines 388-400: the rows of the editor that are kept
kept_rows(grid) == SelectSeq(grid, row_is_valid)

\* line 400: int() of a kept row's count raises ValueError
rows_raise(kept) == \E i \in 1..Len(kept) : int_raises(kept[i].count)

\* line 400: the tasks of the kept rows
rows_tasks(kept) ==
    [i \in 1..Len(kept) |->
        [name |-> kept[i].name, count |-> int_value(kept[i].count)]]

\* lines 385-419, save_to_csv.  dialog is what asksaveasfilename and the
\* write did: "cancel" (no path), "ok", or "error" (open or write raised).
\* The result is the model and what the call came to: "rejected"
\* (ValueError at line 400), "empty" (the warning at line 404), or dialog.
save_to_csv(m, grid, dialog) ==
    LET kept == kept_rows(grid)
    IN  IF rows_raise(kept) THEN [model |-> m, outcome |-> "rejected"]
        ELSE
          LET tasks == rows_tasks(kept)
              m1    == [m EXCEPT !.task_list = tasks]
          IN  IF tasks = <<>> THEN [model |-> m1, outcome |-> "empty"]
              ELSE IF dialog = "ok"
              THEN [model |-> start(IF m1.current_task_index >= Len(tasks)
                                    THEN select_task(m1, 0)
                                    ELSE m1),
                    outcome |-> dialog]
              ELSE [model |-> m1, outcome |-> dialog]

\* line 427: a row of the file is rejected
file_row_bad(row) == Len(row) # 2 \/ ~ str_isdigit(row[2])

\* load_from_existing_csv keeping the rows read before the one it rejects
load_from_existing_csv_partial(m, file, has_spreadsheet) ==
    IF ~ file.readable \/ file.rows = <<>> THEN [model |-> m, raised |-> TRUE]
    ELSE
      LET rows  == Tail(file.rows)
          bad   == {i \in 1..Len(rows) : file_row_bad(rows[i])}
          good  == IF bad = {} THEN Len(rows)
                   ELSE (CHOOSE i \in bad : \A j \in bad : i <= j) - 1
          tasks == [i \in 1..good |->
                       [name |-> rows[i][1], count |-> int_value(rows[i][2])]]
          m1    == [m EXCEPT !.task_list = tasks]
      IN  IF bad # {} \/ ~ has_spreadsheet
          THEN [model |-> m1, raised |-> TRUE]
          ELSE [model |-> start(IF tasks # <<>>
                                THEN select_task(m1, 0)
                                ELSE reset_pomodoro(m1)),
                raised |-> FALSE]

\* lines 421-434, load_from_existing_csv.  file.rows are the rows of the
\* file, the header first; has_spreadsheet is whether self.spreadsheet is
\* not None (populate_spreadsheet iterates over it).  An exception leaves
\* what was assigned before it.
load_from_existing_csv(m, file, has_spreadsheet) ==
    IF ~ file.readable \/ file.rows = <<>> THEN [model |-> m, raised |-> TRUE]
    ELSE
      LET rows  == Tail(file.rows)
          tasks == [i \in 1..Len(rows) |->
                       [name |-> rows[i][1], count |-> int_value(rows[i][2])]]
          m1    == [m EXCEPT !.task_list = tasks]
      IN  IF \E i \in 1..Len(rows) : file_row_bad(rows[i])
          THEN [model |-> m, raised |-> TRUE]
          ELSE IF ~ has_spreadsheet
          THEN [model |-> m1, raised |-> TRUE]
          ELSE [model |-> start(IF tasks # <<>>
                                THEN select_task(m1, 0)
                                ELSE reset_pomodoro(m1)),
                raised |-> FALSE]

\* update_timer counting two seconds for one
update_timer_twice(m) ==
    IF m.is_running /\ m.remaining_time > 0
    THEN [model |-> [m EXCEPT !.remaining_time = @ - 2], raised |-> FALSE]
    ELSE IF m.is_running /\ m.remaining_time = 0
    THEN get_next_state(m)
    ELSE [model |-> m, raised |-> FALSE]

\* update_timer without the test of is_running
update_timer_unpaused(m) ==
    IF m.remaining_time > 0
    THEN [model |-> [m EXCEPT !.remaining_time = @ - 1], raised |-> FALSE]
    ELSE IF m.remaining_time = 0
    THEN get_next_state(m)
    ELSE [model |-> m, raised |-> FALSE]

\* lines 313-319, update_timer, and next_pomodoro (321-323) that it calls:
\* the model after the callback and whether the callback raised
update_timer(m) ==
    IF m.is_running /\ m.remaining_time > 0
    THEN [model |-> [m EXCEPT !.remaining_time = @ - 1], raised |-> FALSE]
    ELSE IF m.is_running /\ m.remaining_time = 0
    THEN get_next_state(m)
    ELSE [model |-> m, raised |-> FALSE]

\* lines 506-513: config.json as on_close writes it
on_close_config(m) ==
    [exists |-> TRUE,
     work   |-> str_int(m.work_duration \div 60),
     short  |-> str_int(m.short_break_duration \div 60),
     long   |-> str_int(m.long_break_duration \div 60)]

\* lines 496-561: the model when mainloop starts.  The view's constructor
\* resets and starts the model (lines 184-187: update_timer runs before
\* start and only schedules itself); then config.json and tasks.csv are
\* loaded, the task file before any editor exists.
startup(config, tasks_file) ==
    LET m1 == start(reset_pomodoro(PomodoroModel_init))
        m2 == load_config_at_startup(m1, config)
    IN  IF tasks_file.exists
        THEN load_from_existing_csv(m2, tasks_file, FALSE).model
        ELSE m2

-----------------------------------------------------------------------------
(* The inputs: what the user types and what the files hold.                *)

\* the settings window's three fields (minutes) when Apply is pressed
SettingsInputs ==
    {<<<<"2">>, <<"1">>, <<"3">>>>,
     <<<<"0">>, <<"1">>, <<"3">>>>,
     <<<<"-", "1">>, <<"1">>, <<"3">>>>,
     <<<<"x">>, <<"1">>, <<"3">>>>,
     <<<<"0">>, <<"x">>, <<"3">>>>,
     <<<<"2">>, <<"1">>, <<"x">>>>}

\* the task lists with at most n tasks, named by row, counts in lo..MaxCount
ListsUpTo(n, lo) ==
    UNION {{[i \in 1..k |-> [name |-> RowNames[i], count |-> c[i]]] :
              c \in [1..k -> lo..MaxCount]} : k \in 0..n}

\* the editor showing a task list
GridOf(list) ==
    [i \in 1..Len(list) |->
        [name |-> list[i].name, count |-> str_int(list[i].count)]]

\* rows of the editor that are not a task: an empty name, an empty count,
\* a count that is no number, a negative count
OddRows ==
    {[name |-> "", count |-> <<"1">>],
     [name |-> "B", count |-> <<>>],
     [name |-> "B", count |-> <<"x">>],
     [name |-> "B", count |-> <<"-", "1">>]}

\* what the editor may hold when Save is pressed
EditorGrids ==
    {GridOf(l) : l \in ListsUpTo(MaxLen, 1)}
    \cup {<<[name |-> "A", count |-> <<"1">>], r>> : r \in OddRows}
    \cup {<<r, [name |-> "C", count |-> <<"1">>]>> : r \in OddRows}

\* asksaveasfilename and the write: no path, written, or an exception
DialogOutcomes == {"cancel", "ok", "error"}

\* a task file written from a task list (lines 409-412)
FileOf(list) ==
    [exists |-> TRUE, readable |-> TRUE,
     rows |-> <<<<"Task Name", "Pomodoros">>>> \o
              [i \in 1..Len(list) |-> <<list[i].name, str_int(list[i].count)>>]]

\* task files that load_from_existing_csv rejects
OddFiles ==
    {[exists |-> TRUE, readable |-> FALSE, rows |-> <<>>],
     [exists |-> TRUE, readable |-> TRUE, rows |-> <<>>],
     [exists |-> TRUE, readable |-> TRUE,
      rows |-> <<<<"Task Name", "Pomodoros">>, <<"A", <<"1">>>>, <<"B">>>>],
     [exists |-> TRUE, readable |-> TRUE,
      rows |-> <<<<"Task Name", "Pomodoros">>, <<"A", <<"1">>>>, <<"B", <<"x">>>>>>],
     [exists |-> TRUE, readable |-> TRUE,
      rows |-> <<<<"Task Name", "Pomodoros">>, <<"A", <<"-", "1">>>>>>],
     [exists |-> TRUE, readable |-> TRUE,
      rows |-> <<<<"Task Name", "Pomodoros">>, <<"A", <<>>>>>>]}

\* the files the user may pick in Load from CSV
TaskFiles == {FileOf(l) : l \in ListsUpTo(MaxLen - 1, 0)} \cup OddFiles

\* lines 518-529: tasks.csv as on_close writes it
on_close_tasks(m) == FileOf(m.task_list)

NoFile == [exists |-> FALSE, readable |-> FALSE, rows |-> <<>>]

\* config.json and tasks.csv as a previous run's on_close left them
StartupConfigs ==
    {[exists |-> TRUE, work |-> <<"2">>, short |-> <<"1">>, long |-> <<"3">>]}

StartupTaskFiles ==
    {NoFile,
     FileOf(<<[name |-> "A", count |-> 1], [name |-> "B", count |-> 2]>>)}

\* no count of m lies deeper below zero than MaxDebt
CountsBounded(m) ==
    \A i \in 1..Len(m.task_list) : m.task_list[i].count >= 0 - MaxDebt

-----------------------------------------------------------------------------
(* The state machine.                                                      *)

Init ==
    /\ \E config \in StartupConfigs, tasks_file \in StartupTaskFiles :
          ModelIs(startup(config, tasks_file))
    /\ timer_scheduled = TRUE
    /\ spreadsheet = FALSE
    /\ last_op = <<"startup">>
    /\ run = [n |-> 0, at |-> M]
    /\ fresh = FALSE

\* the timer callback, once a second while it is scheduled; an exception
\* in it skips line 319 and the callback is never scheduled again
UpdateTimer ==
    LET r == update_timer(M)
    IN  /\ timer_scheduled
        /\ CountsBounded(r.model)
        /\ SetModel(r.model)
        /\ timer_scheduled' = ~ r.raised
        /\ last_op' = <<"update_timer">>
        /\ UNCHANGED spreadsheet

\* menu: Next Pomodoro (lines 321-323); Tk reports an exception and goes on
NextPomodoro ==
    LET r == get_next_state(M)
    IN  /\ CountsBounded(r.model)
        /\ SetModel(r.model)
        /\ last_op' = <<"next_pomodoro">>
        /\ UNCHANGED <<timer_scheduled, spreadsheet>>

\* menu: Pause/Resume (lines 325-326)
PausePomodoro ==
    /\ SetModel(toggle_pause(M))
    /\ last_op' = <<"pause_pomodoro">>
    /\ UNCHANGED <<timer_scheduled, spreadsheet>>

\* the Select button of a Select Task window (lines 340-345) with row k
\* selected; the listbox was filled when the window was opened, so the row
\* may lie past the end of a list replaced since
OnSelect(k) ==
    LET m == select_task(M, k)
    IN  /\ SetModel(m)
        /\ last_op' = <<"on_select", k>>
        /\ UNCHANGED <<timer_scheduled, spreadsheet>>

\* the Apply button of the settings window (lines 465-473)
ApplySettings(work_text, short_text, long_text) ==
    LET r == apply_settings(M, work_text, short_text, long_text)
    IN  /\ SetModel(r.model)
        /\ last_op' = <<"apply_settings", IF r.raised THEN "error" ELSE "ok">>
        /\ UNCHANGED <<timer_scheduled, spreadsheet>>

\* Apply pressed with the fields as the settings window first shows them
\* (lines 457-459)
ApplyShown ==
    ApplySettings(str_int(work_duration \div 60),
                  str_int(short_break_duration \div 60),
                  str_int(long_break_duration \div 60))

\* menu: Task List (lines 348-358) creates the editor
OpenTaskList ==
    /\ spreadsheet' = TRUE
    /\ last_op' = <<"open_task_list">>
    /\ UNCHANGED <<work_duration, short_break_duration, long_break_duration,
                   current_state_index, is_running, remaining_time,
                   current_task, task_list, current_task_index, timer_scheduled>>

\* the editor's Save to CSV button (lines 385-419)
SaveToCsv(grid, dialog) ==
    LET r == save_to_csv(M, grid, dialog)
    IN  /\ spreadsheet
        /\ SetModel(r.model)
        /\ last_op' = <<"save_to_csv", r.outcome, grid>>
        /\ UNCHANGED <<timer_scheduled, spreadsheet>>

\* the editor's Load from CSV button (lines 436-442) with a file picked;
\* an exception is caught and reported
LoadFromCsv(file) ==
    LET r == load_from_existing_csv(M, file, spreadsheet)
    IN  /\ spreadsheet
        /\ SetModel(r.model)
        /\ last_op' = <<"load_from_csv", IF r.raised THEN "error" ELSE "ok", file>>
        /\ UNCHANGED <<timer_scheduled, spreadsheet>>

\* the window is closed (on_close, lines 503-537, writes config.json and
\* tasks.csv) and the program is started again in the same folder
OnClose ==
    /\ SetModel(startup(on_close_config(M), on_close_tasks(M)))
    /\ timer_scheduled' = TRUE
    /\ spreadsheet' = FALSE
    /\ last_op' = <<"on_close">>

\* this step called select_task with an index that it accepted: the Select
\* button (line 343), a written save with the pointer past the end (line
\* 415), a load of a list that is not empty (line 432)
PointerAssigned ==
    \/ last_op'[1] = "on_select" /\ last_op'[2] < Len(task_list)
    \/ /\ last_op'[1] = "save_to_csv"
       /\ last_op'[2] = "ok"
       /\ current_task_index >= Len(task_list')
    \/ /\ last_op'[1] = "load_from_csv"
       /\ last_op'[2] = "ok"
       /\ task_list' # <<>>

\* this step entered a focus interval (lines 52-55)
FocusEntered ==
    /\ last_op'[1] \in {"next_pomodoro", "update_timer"}
    /\ current_state_index' # current_state_index
    /\ pomodoro_cycle[current_state_index' + 1] = "Work"

\* the history variable fresh after this step
TrackFresh ==
    fresh' = IF last_op' = <<"on_close">> THEN FALSE
             ELSE IF PointerAssigned THEN TRUE
             ELSE IF FocusEntered THEN FALSE
             ELSE fresh

\* the timer and the commands of the menu and the settings window
Next ==
    \/ UpdateTimer /\ UNCHANGED <<run, fresh>>
    \/ NextPomodoro /\ UNCHANGED <<run, fresh>>
    \/ PausePomodoro /\ UNCHANGED <<run, fresh>>
    \/ \E k \in 0..(MaxLen - 1) : OnSelect(k) /\ UNCHANGED <<run, fresh>>
    \/ \E t \in SettingsInputs :
          ApplySettings(t[1], t[2], t[3]) /\ UNCHANGED <<run, fresh>>

Spec == Init /\ [][Next]_vars

\* Spec with the timer callback run whenever it stays scheduled: Tk calls
\* a callback registered with root.after (line 319)
SpecLive == Spec /\ WF_vars(UpdateTimer /\ UNCHANGED <<run, fresh>>)

\* the commands that act on the task list, issued between two timer
\* callbacks, and the restart of the program; fresh is followed here
NextTasks ==
    \/ NextPomodoro /\ UNCHANGED run /\ TrackFresh
    \/ PausePomodoro /\ UNCHANGED run /\ TrackFresh
    \/ \E k \in 0..(MaxLen - 1) : OnSelect(k) /\ UNCHANGED run /\ TrackFresh
    \/ ApplyShown /\ UNCHANGED run /\ TrackFresh
    \/ OpenTaskList /\ UNCHANGED run /\ TrackFresh
    \/ \E grid \in EditorGrids, dialog \in DialogOutcomes :
          SaveToCsv(grid, dialog) /\ UNCHANGED run /\ TrackFresh
    \/ \E file \in TaskFiles : LoadFromCsv(file) /\ UNCHANGED run /\ TrackFresh
    \/ OnClose /\ UNCHANGED run /\ TrackFresh

SpecTasks == Init /\ [][NextTasks]_vars

\* Next Pomodoro, the selection of a task and the editor's save of a
\* well-formed list, with Next Pomodoro chosen again and again
NextExhaust ==
    \/ NextPomodoro /\ UNCHANGED run /\ TrackFresh
    \/ \E k \in 0..(MaxLen - 1) : OnSelect(k) /\ UNCHANGED run /\ TrackFresh
    \/ OpenTaskList /\ UNCHANGED run /\ TrackFresh
    \/ \E l \in ListsUpTo(MaxLen, 1), dialog \in DialogOutcomes :
          SaveToCsv(GridOf(l), dialog) /\ UNCHANGED run /\ TrackFresh

SpecExhaust ==
    /\ Init
    /\ [][NextExhaust]_vars
    /\ WF_vars(NextPomodoro /\ UNCHANGED run /\ TrackFresh)

\* the timer and the commands of the menu, with the callbacks since the
\* last command counted up to MaxRun and the model at that command kept
NextRun ==
    \/ /\ UpdateTimer
       /\ run' = IF run.n >= 0 /\ run.n < MaxRun
                 THEN [run EXCEPT !.n = @ + 1]
                 ELSE [n |-> -1, at |-> M']
       /\ UNCHANGED fresh
    \/ /\ NextPomodoro
       /\ run' = [n |-> 0, at |-> M']
       /\ UNCHANGED fresh
    \/ /\ PausePomodoro
       /\ run' = [n |-> 0, at |-> M']
       /\ UNCHANGED fresh
    \/ \E k \in 0..(MaxLen - 1) :
          /\ OnSelect(k)
          /\ run' = [n |-> 0, at |-> M']
          /\ UNCHANGED fresh

SpecRun == Init /\ [][NextRun]_vars

-----------------------------------------------------------------------------
(* The properties.                                                         *)

\* the cycle template of the specification, with the program's name
\* ("Work") for a focus interval
Template ==
    <<"Work", "Short Break", "Work", "Short Break",
      "Work", "Short Break", "Work", "Long Break">>

\* the configured duration of an interval kind
DurationOf(kind) ==
    IF kind = "Work" THEN work_duration
    ELSE IF kind = "Short Break" THEN short_break_duration
    ELSE long_break_duration

\* this step is an advance: the menu's Next Pomodoro, or a timer callback
\* that found the model running with no time left
AdvanceStep ==
    \/ last_op' = <<"next_pomodoro">>
    \/ last_op' = <<"update_timer">> /\ is_running /\ remaining_time = 0

\* this step is a focus entry on a non-empty task list
FocusEntryStep ==
    /\ AdvanceStep
    /\ Template[((current_state_index + 1) % 8) + 1] = "Work"
    /\ task_list # <<>>

\* the canonical policy of a focus entry, from the state before it
PolicyFollowed ==
    LET p == current_task_index
        n == Len(task_list)
    IN  /\ p \in -1..(n - 1)
        /\ LET q  == IF p = -1 THEN 0 ELSE p
               tl == IF p = -1 \/ task_list[p + 1].count = 0
                     THEN task_list
                     ELSE [task_list EXCEPT ![p + 1].count = @ - 1]
           IN  /\ task_list' = tl
               /\ current_task_index' =
                     IF tl[q + 1].count = 0 THEN (q + 1) % n ELSE q

\* four focus entries on [(A,1),(B,2)] with the pointer unset
ExampleStart ==
    [PomodoroModel_init EXCEPT
        !.task_list = <<[name |-> "A", count |-> 1], [name |-> "B", count |-> 2]>>,
        !.current_state_index = 1]

FocusEntryOf(m) == get_next_state([m EXCEPT !.current_state_index = 1]).model

ExampleRuns ==
    LET e1 == FocusEntryOf(ExampleStart)
        e2 == FocusEntryOf(e1)
        e3 == FocusEntryOf(e2)
        e4 == FocusEntryOf(e3)
    IN  /\ e1.current_task = "A" /\ e1.task_list[1].count = 1
        /\ e2.current_task = "B" /\ e2.task_list[1].count = 0
                                 /\ e2.task_list[2].count = 2
        /\ e3.current_task = "B" /\ e3.task_list[2].count = 1
        /\ e4.current_task = "All Tasks Completed"
        /\ e4.task_list[2].count = 0 /\ e4.current_task_index = 0

\* C1: every focus entry on a non-empty task list, whatever the pointer,
\* follows the canonical policy: an unset pointer becomes 0 with no
\* decrement; otherwise the pointed task's count goes down by one unless it
\* is 0; then a pointed task at 0 moves the pointer on by one, wrapping.
\* And [(A,1),(B,2)] from unset gives A, B, B, "All Tasks Completed".
C1_FocusEntryPolicy ==
    /\ [](ExampleRuns)
    /\ [][FocusEntryStep => PolicyFollowed]_vars

\* the policy of C1 where the pointer is unset or indexes the list
C1_PolicyInRange ==
    [][FocusEntryStep /\ current_task_index < Len(task_list)
          => PolicyFollowed]_vars

\* a focus entry has just been made on a non-empty list of counts >= 0,
\* and the pointer indexes the list
AfterFocusEntry ==
    /\ last_op = <<"next_pomodoro">>
    /\ Template[current_state_index + 1] = "Work"
    /\ task_list # <<>>
    /\ current_task_index \in 0..(Len(task_list) - 1)
    /\ \A i \in 1..Len(task_list) : task_list[i].count >= 0

AllCountsZero == \A i \in 1..Len(task_list) : task_list[i].count = 0

\* C2: after a focus entry on a non-empty list the label is "All Tasks
\* Completed" exactly when every count is 0, and otherwise it is the name
\* of the pointed task, whose count is positive.
C2_CompletedLabel ==
    AfterFocusEntry =>
        /\ (current_task = "All Tasks Completed") <=> AllCountsZero
        /\ ~ AllCountsZero =>
              /\ current_task = task_list[current_task_index + 1].name
              /\ task_list[current_task_index + 1].count > 0

\* line 310: the interval kind the view shows
state_label == pomodoro_cycle[current_state_index + 1]

\* C3: the position is always one of 0..7 and its kind is the template's;
\* every advance moves the position from i to (i + 1) mod 8.
C3_CycleOrder ==
    /\ [](/\ current_state_index \in 0..7
          /\ state_label = Template[current_state_index + 1])
    /\ [][AdvanceStep =>
            current_state_index' = (current_state_index + 1) % 8]_vars

\* a timer callback has just wrapped the cycle from position 7 to 0
C3_Witness ==
    /\ last_op = <<"update_timer">>
    /\ is_running
    /\ current_state_index = 0
    /\ work_duration > 0
    /\ remaining_time = work_duration

\* C4: a timer callback that finds the model running with no time left
\* moves the position on by one (mod 8), sets the remaining time to the
\* configured duration of the new position's kind and, for a break, sets
\* the label to the break's name.
C4_TickAtZero ==
    [][last_op' = <<"update_timer">> /\ is_running /\ remaining_time = 0 =>
          /\ current_state_index' = (current_state_index + 1) % 8
          /\ remaining_time' = DurationOf(Template[current_state_index' + 1])
          /\ Template[current_state_index' + 1] # "Work" =>
                current_task' = Template[current_state_index' + 1]]_vars

\* a timer callback has just entered the long break
C4_Witness ==
    /\ last_op = <<"update_timer">>
    /\ is_running
    /\ current_state_index = 7
    /\ remaining_time = long_break_duration
    /\ long_break_duration # short_break_duration
    /\ current_task = "Long Break"

\* C5: n timer callbacks in a row, begun while running with more than n
\* seconds left, take exactly n seconds off and leave the position, the
\* task list, the pointer and the label as they were.
C5_Countdown ==
    (run.n > 0 /\ run.at.is_running /\ run.n < run.at.remaining_time) =>
        /\ remaining_time = run.at.remaining_time - run.n
        /\ current_state_index = run.at.current_state_index
        /\ task_list = run.at.task_list
        /\ current_task_index = run.at.current_task_index
        /\ current_task = run.at.current_task

\* MaxRun callbacks in a row have counted down
C5_Witness ==
    /\ run.n = MaxRun
    /\ run.at.is_running
    /\ run.n < run.at.remaining_time
    /\ task_list # <<>>

\* C6: a rejected Apply (a field that is no number) leaves the three
\* durations, the remaining time, the position and running as they were.
C6_RejectIsAtomic ==
    [][last_op' = <<"apply_settings", "error">> =>
          UNCHANGED <<work_duration, short_break_duration, long_break_duration,
                      remaining_time, current_state_index, is_running>>]_vars

\* C7: the three durations are positive in every reachable state.
C7_PositiveDurations ==
    /\ work_duration > 0
    /\ short_break_duration > 0
    /\ long_break_duration > 0

\* C8: selecting row k of a list that has it sets the pointer to k, the
\* position to 0, the remaining time to the focus duration and running to
\* false; selecting a row past the end changes nothing.
C8_SelectTask ==
    [][\A k \in 0..(MaxLen - 1) :
          last_op' = <<"on_select", k>> =>
             IF k < Len(task_list)
             THEN /\ current_task_index' = k
                  /\ current_state_index' = 0
                  /\ remaining_time' = work_duration
                  /\ is_running' = FALSE
                  /\ UNCHANGED <<task_list, work_duration,
                                 short_break_duration, long_break_duration>>
             ELSE UNCHANGED <<work_duration, short_break_duration,
                              long_break_duration, current_state_index,
                              is_running, remaining_time, current_task,
                              task_list, current_task_index>>]_vars

\* the second row has just been selected
C8_Witness ==
    /\ last_op = <<"on_select", 1>>
    /\ current_task_index = 1
    /\ current_state_index = 0
    /\ remaining_time = work_duration
    /\ ~ is_running

\* C9: a reset sets the position to 0, the remaining time to the focus
\* duration and running to false, leaves the pointer, the counts and the
\* durations alone, and shows the name of the pointed task when the pointer
\* is set and "No Task Selected" when it is not.
C9_Reset ==
    [][last_op' = <<"apply_settings", "ok">> =>
          /\ current_state_index' = 0
          /\ remaining_time' = work_duration
          /\ is_running' = FALSE
          /\ UNCHANGED <<current_task_index, task_list, work_duration,
                         short_break_duration, long_break_duration>>
          /\ IF current_task_index = -1
             THEN current_task' = "No Task Selected"
             ELSE /\ current_task_index < Len(task_list)
                  /\ current_task' = task_list[current_task_index + 1].name]_vars

\* the reset of C9 where the pointer is unset or indexes the list
C9_ResetInRange ==
    [][last_op' = <<"apply_settings", "ok">>
          /\ current_task_index < Len(task_list) =>
          /\ current_state_index' = 0
          /\ remaining_time' = work_duration
          /\ is_running' = FALSE
          /\ UNCHANGED <<current_task_index, task_list, work_duration,
                         short_break_duration, long_break_duration>>
          /\ current_task' = IF current_task_index = -1
                             THEN "No Task Selected"
                             ELSE task_list[current_task_index + 1].name]_vars

\* this step replaced the task list: a save that int() did not stop,
\* whatever the dialog and the write did, or a load that was accepted
ReplaceStep ==
    \/ last_op'[1] = "save_to_csv" /\ last_op'[2] # "rejected"
    \/ last_op'[1] = "load_from_csv" /\ last_op'[2] = "ok"

\* C10: when the task list is replaced and the selected index is out of
\* range for the new list, index 0 is selected if the new list is not
\* empty, and otherwise the pointer is unset and the cycle is reset.
C10_ReplaceFixesPointer ==
    [][ReplaceStep /\ current_task_index >= 0
                   /\ current_task_index >= Len(task_list') =>
          IF task_list' # <<>>
          THEN current_task_index' = 0
          ELSE /\ current_task_index' = -1
               /\ current_state_index' = 0
               /\ remaining_time' = work_duration
               /\ is_running' = FALSE]_vars

\* an entry of the editor that is no task: an empty name, or a count that
\* is no integer or is negative
EntryInvalid(row) ==
    \/ row.name = ""
    \/ int_raises(row.count)
    \/ int_value(row.count) < 0

\* C11: a save from an editor in which some entry has an empty name or a
\* negative or non-integer count leaves the task list as it was.
C11_BatchValidation ==
    [][/\ last_op'[1] = "save_to_csv"
       /\ \E i \in 1..Len(last_op'[3]) : EntryInvalid(last_op'[3][i])
       => task_list' = task_list]_vars

\* a row of a task file with a wrong number of columns or a count that is
\* missing or not numeric
FileRowInvalid(row) == Len(row) # 2 \/ int_raises(row[2])

\* C12: a load of a file in which some row has a non-numeric or missing
\* count or a wrong number of columns leaves the task list, the pointer,
\* the position, the remaining time, running and the label as they were.
C12_LoadRejectsWholeFile ==
    [][/\ last_op'[1] = "load_from_csv"
       /\ \E i \in 2..Len(last_op'[3].rows) : FileRowInvalid(last_op'[3].rows[i])
       => UNCHANGED <<task_list, current_task_index, current_state_index,
                      remaining_time, is_running, current_task>>]_vars

\* a file whose second row has no number was refused while a task list
\* with a selected task was in use
C12_Witness ==
    /\ last_op[1] = "load_from_csv"
    /\ last_op[2] = "error"
    /\ Len(last_op[3].rows) = 3
    /\ FileRowInvalid(last_op[3].rows[3])
    /\ ~ FileRowInvalid(last_op[3].rows[2])
    /\ task_list # <<>>
    /\ current_task_index >= 0

\* C13: a save whose write fails leaves the task list, the pointer, the
\* position, the remaining time, running, the durations and the label as
\* they were.
C13_FailedSaveKeepsState ==
    [][last_op'[1] = "save_to_csv" /\ last_op'[2] = "error" =>
          UNCHANGED <<task_list, current_task_index, current_state_index,
                      remaining_time, is_running, work_duration,
                      short_break_duration, long_break_duration,
                      current_task>>]_vars

\* C14: a focus entry on an empty task list shows "No Task Selected" and
\* leaves the pointer unset.
C14_EmptyListFocusEntry ==
    [][/\ AdvanceStep
       /\ Template[((current_state_index + 1) % 8) + 1] = "Work"
       /\ task_list = <<>>
       => /\ current_task' = "No Task Selected"
          /\ current_task_index' = -1]_vars

\* the focus entry of C14 without the pointer: the label alone
C14_EmptyListLabel ==
    [][/\ AdvanceStep
       /\ Template[((current_state_index + 1) % 8) + 1] = "Work"
       /\ task_list = <<>>
       => /\ current_task' = "No Task Selected"
          /\ current_task_index' = current_task_index]_vars

\* C16: timer callbacks while the model is not running, however many and
\* whatever the remaining time, leave the position, the remaining time,
\* running, the task list, the pointer and the label as they were.
C16_PausedTickIsNoOp ==
    (run.n > 0 /\ ~ run.at.is_running) =>
        /\ current_state_index = run.at.current_state_index
        /\ remaining_time = run.at.remaining_time
        /\ is_running = run.at.is_running
        /\ task_list = run.at.task_list
        /\ current_task_index = run.at.current_task_index
        /\ current_task = run.at.current_task

\* MaxRun callbacks have found the model paused with no time left
C16_Witness ==
    /\ run.n = MaxRun
    /\ ~ run.at.is_running
    /\ run.at.remaining_time = 0
    /\ remaining_time = 0

\* C17: the pointer is unset or indexes the task list.
C17_PointerInRange ==
    \/ current_task_index = -1
    \/ 0 <= current_task_index /\ current_task_index < Len(task_list)

\* C18: the remaining time is at least 0 and at most the configured
\* duration of the kind at the position.
C18_RemainingInRange ==
    /\ 0 <= remaining_time
    /\ remaining_time <= DurationOf(Template[current_state_index + 1])

\* C19: no task has a negative count.
C19_CountsNonNegative ==
    \A i \in 1..Len(task_list) : task_list[i].count >= 0

\* C15: closing the program and starting it again gives back the three
\* durations and the task list, with its order, names and counts.
C15_RoundTrip ==
    [][last_op' = <<"on_close">> =>
          UNCHANGED <<work_duration, short_break_duration,
                      long_break_duration, task_list>>]_vars

\* the round trip of C15 for a task list with no negative count
C15_RoundTripNonNegative ==
    [][last_op' = <<"on_close">> /\ C19_CountsNonNegative =>
          UNCHANGED <<work_duration, short_break_duration,
                      long_break_duration, task_list>>]_vars

\* C20: the first focus entry after select_task has set the pointer
\* leaves the count of the pointed task as it was.
C20_FirstEntryKeepsCount ==
    [][/\ FocusEntryStep
       /\ fresh
       /\ 0 <= current_task_index
       /\ current_task_index < Len(task_list)
       => /\ Len(task_list') = Len(task_list)
          /\ task_list'[current_task_index + 1].count =
                task_list[current_task_index + 1].count]_vars

\* the bounds of C18 are kept by every step but Apply, while the three
\* durations are positive, and an accepted Apply of positive values sets
\* them up
C18_KeptElsewhere ==
    [][/\ C7_PositiveDurations
       /\ C7_PositiveDurations'
       /\ C18_RemainingInRange \/ last_op' = <<"apply_settings", "ok">>
       /\ last_op' # <<"apply_settings", "error">>
       => C18_RemainingInRange']_vars

\* C21: a running timer can always count down or advance, and when the
\* model stays running from some time on, every one of the 8 positions is
\* visited again and again.
C21_CycleNeverHalts ==
    /\ [](is_running => timer_scheduled /\ remaining_time >= 0)
    /\ (<>[]is_running) =>
          \A i \in 0..7 : []<>(current_state_index = i)

\* the cycle of C21 while the callback stays scheduled and the remaining
\* time is never negative
C21_CycleWhileSound ==
    (<>[](is_running /\ timer_scheduled /\ remaining_time >= 0)) =>
        \A i \in 0..7 : []<>(current_state_index = i)

\* the rows of the task list whose count this step changed
ChangedCounts ==
    {i \in 1..Len(task_list) : task_list'[i].count # task_list[i].count}

\* C22: an advance, a timer callback, a reset, a selection and a toggle
\* keep the length and order of the task list and every name; an advance
\* into a focus interval takes exactly 1 off the count of at most one
\* task; every other such step keeps every count, and an advance into a
\* break keeps the pointer too.
C22_CountsChangeAtFocusEntry ==
    [][last_op'[1] \in {"next_pomodoro", "update_timer", "pause_pomodoro",
                        "on_select", "apply_settings"} =>
          /\ Len(task_list') = Len(task_list)
          /\ \A i \in 1..Len(task_list) :
                task_list'[i].name = task_list[i].name
          /\ IF AdvanceStep /\ Template[((current_state_index + 1) % 8) + 1] = "Work"
             THEN /\ Cardinality(ChangedCounts) <= 1
                  /\ \A i \in ChangedCounts :
                        task_list'[i].count = task_list[i].count - 1
             ELSE /\ ChangedCounts = {}
                  /\ AdvanceStep => current_task_index' = current_task_index]_vars

\* a timer callback has just entered a focus interval and taken B from
\* 2 to 1
C22_Witness ==
    /\ last_op = <<"update_timer">>
    /\ Template[current_state_index + 1] = "Work"
    /\ remaining_time = work_duration
    /\ task_list = <<[name |-> "A", count |-> 0], [name |-> "B", count |-> 1]>>
    /\ current_task_index = 1

\* the last step was no selection, no replacement of the task list and no
\* restart
Undisturbed ==
    last_op[1] \notin {"on_select", "save_to_csv", "load_from_csv", "on_close"}

\* Next Pomodoro has just entered a focus interval
FocusJustEntered ==
    last_op = <<"next_pomodoro">> /\ Template[current_state_index + 1] = "Work"

\* C23: when focus intervals keep being entered and, from some time on,
\* no task is selected and the task list is not replaced, a task list that
\* is not empty and has no negative count ends with every count 0; and a
\* focus entry on a list with every count 0 shows "All Tasks Completed"
\* and changes no count.
C23_ExhaustionReached ==
    /\ ([]<>FocusJustEntered /\ <>[]Undisturbed) =>
          <>[](task_list # <<>> /\ C19_CountsNonNegative => AllCountsZero)
    /\ [][FocusEntryStep /\ AllCountsZero =>
            /\ current_task' = "All Tasks Completed"
            /\ task_list' = task_list]_vars

\* the exhaustion of C23 where the pointer is unset or indexes the list
C23_ExhaustionInRange ==
    /\ ([]<>FocusJustEntered /\ <>[](Undisturbed /\ C17_PointerInRange)) =>
          <>[](task_list # <<>> /\ C19_CountsNonNegative => AllCountsZero)
    /\ [][FocusEntryStep /\ AllCountsZero /\ C17_PointerInRange =>
            /\ current_task' = "All Tasks Completed"
            /\ task_list' = task_list]_vars

====
